---------------------------- MODULE Spec2Model ----------------------------
(***************************************************************************)
(* Model of scripts/ingest_data.py: the holiday normalisation run (cell    *)
(* splitting, date parsing, region applicability, replacement resolution   *)
(* and replacement aggregation).                                           *)
(*                                                                         *)
(* Text is a sequence of atoms: " " and "\n" are whitespace atoms, "*" is  *)
(* the special-observance marker, every other atom is a run of            *)
(* non-whitespace characters.  A calendar date is its day number counted   *)
(* from 1 January of YEAR (1 = 1 January 2026); None, where a date is      *)
(* expected, is NoDate.                                                    *)
(***************************************************************************)
EXTENDS Integers, Sequences, FiniteSets, TLC

VARIABLES
    \* ---- the ingestion run (main) ----
    states_config,             \* region code -> configuration, loaded once
    holidays_to_insert,        \* result accumulator: Holiday records
    holiday_states_to_insert,  \* result accumulator: (holiday id, region) links
    global_id_counter,
    pc,                        \* "idle" | "read" | "frag" | "done" | "aborted"
    raised,                    \* the uncaught exception that ended the run, or ""
    rowsRead,                  \* number of rows taken from the table so far
    row,                       \* the row being processed (the last one read)
    names, dates,              \* the split cells of that row
    i,                         \* fragments of that row already processed
    \* ---- one call of get_replacement_date, statement by statement ----
    r_pc,                      \* "idle" | "call" | "loop" | "returned"
    holiday_date, weekend_days, replacement_rule,
    next_date,                 \* local of get_next_working_day
    advances,                  \* number of one-day advances made by the search
    r_result                   \* the date returned, NoDate for None

runVars == <<states_config, holidays_to_insert, holiday_states_to_insert,
             global_id_counter, pc, raised, rowsRead, row, names, dates, i>>
resolverVars == <<r_pc, holiday_date, weekend_days, replacement_rule,
                  next_date, advances, r_result>>
vars == <<runVars, resolverVars>>

-----------------------------------------------------------------------------
(* Bounds of the model *)

MaxRows == 2        \* rows of the source table read by one run
MaxDate == 7        \* holiday dates 1..MaxDate are tried by the resolver
MaxAdvances == 8    \* the search loop is followed for this many advances

-----------------------------------------------------------------------------
(* Program constants *)

YEAR == 2026

NoDate == 0

None == <<>>

\* CSV header -> region code, in the dictionary's order
STATE_MAPPING ==
    << <<"JOHOR", "JHR">>, <<"KEDAH", "KDH">>, <<"KELANTAN", "KTN">>,
       <<"MELAKA", "MLK">>, <<"N.SEMBILAN", "NSN">>, <<"PAHANG", "PHG">>,
       <<"PERAK", "PRK">>, <<"PERLIS", "PLS">>, <<"P.PINANG", "PNG">>,
       <<"SABAH", "SBH">>, <<"SARAWAK", "SWK">>, <<"SELANGOR", "SGR">>,
       <<"TERENGGANU", "TRG">>, <<"W.P.K.LUMPUR", "KUL">>,
       <<"W.P.LABUAN", "LBN">>, <<"W.P.PUTRAJAYA", "WP">> >>

MONTH_MAPPING ==
    [m \in {"Januari", "Februari", "Mac", "April", "Mei", "Jun", "Julai",
            "Ogos", "September", "Oktober", "November", "Disember"} |->
        CASE m = "Januari" -> 1   [] m = "Februari" -> 2  [] m = "Mac" -> 3
          [] m = "April" -> 4     [] m = "Mei" -> 5       [] m = "Jun" -> 6
          [] m = "Julai" -> 7     [] m = "Ogos" -> 8      [] m = "September" -> 9
          [] m = "Oktober" -> 10  [] m = "November" -> 11 [] m = "Disember" -> 12]

-----------------------------------------------------------------------------
(* Text: str.strip, str.split, str.replace *)

IsSpace(a) == a \in {" ", "\n"}

RECURSIVE LStrip(_)
LStrip(s) == IF s = <<>> \/ ~IsSpace(Head(s)) THEN s ELSE LStrip(Tail(s))

RECURSIVE RStrip(_)
RStrip(s) ==
    IF s = <<>> \/ ~IsSpace(s[Len(s)]) THEN s ELSE RStrip(SubSeq(s, 1, Len(s) - 1))

Strip(s) == RStrip(LStrip(s))

\* s.split(sep): k is the next position, cur the part being read, acc the parts done
RECURSIVE SplitFrom(_, _, _, _, _)
SplitFrom(s, sep, k, cur, acc) ==
    IF k > Len(s) THEN Append(acc, cur)
    ELSE IF s[k] = sep THEN SplitFrom(s, sep, k + 1, <<>>, Append(acc, cur))
    ELSE SplitFrom(s, sep, k + 1, Append(cur, s[k]), acc)

Split(s, sep) == SplitFrom(s, sep, 1, <<>>, <<>>)

RemoveStars(s) == SelectSeq(s, LAMBDA a : a # "*")

-----------------------------------------------------------------------------
(* Dates: datetime.date, strftime('%A'), timedelta(days=1) *)

WeekdayNames ==
    <<"Monday", "Tuesday", "Wednesday", "Thursday", "Friday", "Saturday", "Sunday">>

Weekdays == {WeekdayNames[k] : k \in 1..7}

\* 1 January 2026 (day 1) is a Thursday
DayName(d) == WeekdayNames[((d + 2) % 7) + 1]

DaysInMonth == <<31, 28, 31, 30, 31, 30, 31, 31, 30, 31, 30, 31>>

IsLeap(year) == (year % 4 = 0 /\ year % 100 # 0) \/ year % 400 = 0

DaysIn(year, month) == IF month = 2 /\ IsLeap(year) THEN 29 ELSE DaysInMonth[month]

RECURSIVE DaysBefore(_, _)
DaysBefore(year, month) ==
    IF month = 1 THEN 0 ELSE DaysBefore(year, month - 1) + DaysIn(year, month - 1)

\* int(): the decimal literals among the atoms
IntLiterals ==
    ("0" :> 0) @@ ("1" :> 1) @@ ("17" :> 17) @@ ("18" :> 18) @@ ("30" :> 30)
    @@ ("31" :> 31) @@ ("2026" :> 2026)

IsIntLiteral(part) == Len(part) = 1 /\ part[1] \in DOMAIN IntLiterals

Return(v) == [exc |-> "", val |-> v]

Raise(e) == [exc |-> e, val |-> NoDate]

parse_date(date_str, year) ==
    LET clean_str == Strip(date_str)
        parts == Split(clean_str, " ")
    IN  IF Len(parts) < 2 THEN Return(NoDate)
        ELSE IF ~IsIntLiteral(parts[1]) THEN Raise("ValueError")
        ELSE LET day == IntLiterals[parts[1][1]]
                 month_str == parts[2]
             IN  IF ~(Len(month_str) = 1 /\ month_str[1] \in DOMAIN MONTH_MAPPING)
                 THEN Return(NoDate)
                 ELSE LET month == MONTH_MAPPING[month_str[1]]
                      IN  IF day >= 1 /\ day <= DaysIn(year, month)
                          THEN Return(DaysBefore(year, month) + day)
                          ELSE Return(NoDate)

-----------------------------------------------------------------------------
(* Replacement Resolver *)

InWeekend(date, weekend) == DayName(date) \in weekend

RECURSIVE NextWorkingFrom(_, _)
NextWorkingFrom(date, weekend) ==
    IF InWeekend(date, weekend) THEN NextWorkingFrom(date + 1, weekend) ELSE date

get_next_working_day(date, weekend) == NextWorkingFrom(date + 1, weekend)

\* with a Saturday exemption under 'replace_on_sunday'
ReplacementNeeded_SaturdayExempt(day_name, weekend, rule) ==
    /\ day_name \in weekend
    /\ rule # "no_replacement"
    /\ ~(rule = "replace_on_sunday" /\ day_name = "Saturday")

\* without the 'no_replacement' branch
ReplacementNeeded_IgnoreRule(day_name, weekend, rule) ==
    day_name \in weekend

\* the branches of get_replacement_date that decide between None and a date
ReplacementNeeded(day_name, weekend, rule) ==
    IF day_name \notin weekend THEN FALSE
    ELSE IF rule = "no_replacement" THEN FALSE
    ELSE IF day_name = "Saturday" /\ rule = "no_replacement" THEN FALSE
    ELSE TRUE

get_replacement_date(date, weekend, rule) ==
    IF ReplacementNeeded(DayName(date), weekend, rule)
    THEN get_next_working_day(date, weekend)
    ELSE NoDate

Rules == {"no_replacement", "replace_on_sunday", "next_working_day"}

ResolverIdle ==
    /\ r_pc = "idle"
    /\ holiday_date = 1
    /\ weekend_days = {}
    /\ replacement_rule = "no_replacement"
    /\ next_date = NoDate
    /\ advances = 0
    /\ r_result = NoDate

ResolverInit ==
    /\ r_pc = "call"
    /\ holiday_date \in 1..MaxDate
    /\ weekend_days \in SUBSET Weekdays
    /\ replacement_rule \in Rules
    /\ next_date = NoDate
    /\ advances = 0
    /\ r_result = NoDate

\* get_replacement_date up to the call of get_next_working_day and its first statement
GetReplacementDate ==
    /\ r_pc = "call"
    /\ IF ReplacementNeeded(DayName(holiday_date), weekend_days, replacement_rule)
       THEN /\ next_date' = holiday_date + 1
            /\ advances' = 1
            /\ r_pc' = "loop"
            /\ UNCHANGED r_result
       ELSE /\ r_result' = NoDate
            /\ r_pc' = "returned"
            /\ UNCHANGED <<next_date, advances>>
    /\ UNCHANGED <<holiday_date, weekend_days, replacement_rule>>

\* one iteration of the while loop of get_next_working_day
NextWorkingDayAdvance ==
    /\ r_pc = "loop"
    /\ InWeekend(next_date, weekend_days)
    /\ advances < MaxAdvances
    /\ next_date' = next_date + 1
    /\ advances' = advances + 1
    /\ UNCHANGED <<r_pc, r_result, holiday_date, weekend_days, replacement_rule>>

\* returning without testing the loop condition
NextWorkingDayReturn_NoLoop ==
    /\ r_pc = "loop"
    /\ r_result' = next_date
    /\ r_pc' = "returned"
    /\ UNCHANGED <<holiday_date, weekend_days, replacement_rule, next_date, advances>>

\* the loop ends: get_next_working_day returns and get_replacement_date returns it
NextWorkingDayReturn ==
    /\ r_pc = "loop"
    /\ ~InWeekend(next_date, weekend_days)
    /\ r_result' = next_date
    /\ r_pc' = "returned"
    /\ UNCHANGED <<holiday_date, weekend_days, replacement_rule, next_date, advances>>

-----------------------------------------------------------------------------
(* The rows of the table and the region registry a run may be given *)

\* stands for the affirmative glyph of the marker columns (U+221A)
Tick == "v"

Columns == {STATE_MAPPING[k][1] : k \in 1..Len(STATE_MAPPING)}

Codes == {STATE_MAPPING[k][2] : k \in 1..Len(STATE_MAPPING)}

FriSat == {"Friday", "Saturday"}

SatSun == {"Saturday", "Sunday"}

Config(weekend, pattern, rule) ==
    [weekend_days |-> weekend, weekend_pattern |-> pattern,
     saturday_replacement_rule |-> rule]

\* every region of the mapping configured: Kedah Fri-Sat without replacement,
\* Kelantan and Terengganu Fri-Sat replaced on Sunday, the others Sat-Sun
FullRegistry ==
    [c \in Codes |->
        IF c = "KDH" THEN Config(FriSat, "fri_sat", "no_replacement")
        ELSE IF c \in {"KTN", "TRG"} THEN Config(FriSat, "fri_sat", "replace_on_sunday")
        ELSE IF c \in {"SBH", "SWK"} THEN Config(SatSun, "sat_sun", "no_replacement")
        ELSE Config(SatSun, "sat_sun", "next_working_day")]

\* the states table lacks a row for W.P.LABUAN
RegistryWithoutLBN == [c \in Codes \ {"LBN"} |-> FullRegistry[c]]

Registries == {FullRegistry, RegistryWithoutLBN}

MarkerRows ==
    { [c \in Columns |-> <<Tick>>],
      [c \in Columns |-> <<"nan">>],
      [c \in Columns |->
          IF c \in {"JOHOR", "KELANTAN", "SELANGOR"} THEN <<Tick>>
          ELSE IF c = "KEDAH" THEN <<" ", Tick>>
          ELSE <<"nan">>],
      [c \in Columns |-> IF c = "W.P.LABUAN" THEN <<"vv">> ELSE <<Tick>>] }

HariRayaPuasa == <<"Hari", " ", "Raya", " ", "Puasa">>

HariKedua == HariRayaPuasa \o <<" ", "(Hari", " ", "Kedua)">>

\* <<name cell, date cell>>
CellPairs ==
    { <<HariRayaPuasa \o <<" ", "*", "\n", "\n">> \o HariKedua \o <<" ", "*">>,
        <<"17", " ", "Februari", " ", "\n", " ", "\n", " ", "18", " ", "Februari">> >>,
      << <<"Thaipusam">>, <<" ", "31", " ", "Januari">> >>,
      << <<"Tahun", " ", "Baru", " ", "Cina", "*">>, <<"1", " ", "Februari", " ", "2026">> >>,
      << <<"Hari", " ", "Wesak", "\n", "Hari", " ", "Malaysia">>, <<"30", " ", "Januari">> >>,
      << <<"Hari", " ", "Wesak">>, <<"31", " ", "Januari", "\n", "17", " ", "Februari">> >>,
      << <<"A", "\n", "B", "\n", "C", "\n", "D", "\n", "E">>,
         <<"17", "\n", "17", " ", "Foo", "\n", "31", " ", "April", "\n",
           "17", " ", " ", "Februari", "\n", "18", " ", "Februari">> >>,
      << <<"A", "\n", "B", "\n", "C">>,
         <<"31", " ", "Januari", "\n", "x", " ", "Februari", "\n", "17", " ", "Februari">> >>,
      << <<" ", "\n">>, <<>> >>,
      << <<"nan">>, <<"nan">> >> }

Rows == {[name |-> p[1], date |-> p[2], marks |-> m] : p \in CellPairs, m \in MarkerRows}

NoRow == [name |-> <<>>, date |-> <<>>, marks |-> [c \in Columns |-> <<>>]]

-----------------------------------------------------------------------------
(* main: the loop over the rows *)

Min(a, b) == IF a <= b THEN a ELSE b

\* [x.strip() for x in raw.split('\n') if x.strip()], from line k on
RECURSIVE StripLines(_, _)
StripLines(lines, k) ==
    IF k > Len(lines) THEN <<>>
    ELSE IF Strip(lines[k]) # <<>> THEN <<Strip(lines[k])>> \o StripLines(lines, k + 1)
    ELSE StripLines(lines, k + 1)

\* splitting without trimming the lines or dropping the blank ones
SplitCell_KeepBlank(raw) == Split(raw, "\n")

SplitCell(raw) == StripLines(Split(raw, "\n"), 1)

translate_text(text) == IF Strip(text) = <<>> THEN <<>> ELSE <<"en:">> \o text

\* f"mys-{YEAR}-{global_id_counter:03d}"
\* the decimal digits of a natural number, most significant first
RECURSIVE Digits(_)
Digits(n) == IF n < 10 THEN <<n>> ELSE Append(Digits(n \div 10), n % 10)

\* the format width 03d: zeros on the left up to `width` digits, never a cut
RECURSIVE ZeroPad(_, _)
ZeroPad(ds, width) == IF Len(ds) >= width THEN ds ELSE ZeroPad(<<0>> \o ds, width)

HolidayId(counter) == <<"mys", YEAR, ZeroPad(Digits(counter), 3)>>

\* the loop over STATE_MAPPING.items(), from entry k on
RECURSIVE AffectedFrom(_, _)
AffectedFrom(r, k) ==
    IF k > Len(STATE_MAPPING) THEN <<>>
    ELSE IF Strip(r.marks[STATE_MAPPING[k][1]]) = <<Tick>>
         THEN <<STATE_MAPPING[k][2]>> \o AffectedFrom(r, k + 1)
         ELSE AffectedFrom(r, k + 1)

\* matching a marker cell that merely contains the glyph
AffectedStates_Contains(r) ==
    SelectSeq([k \in 1..Len(STATE_MAPPING) |-> STATE_MAPPING[k][2]],
              LAMBDA c : \E k \in 1..Len(STATE_MAPPING) :
                  /\ STATE_MAPPING[k][2] = c
                  /\ \E j \in 1..Len(r.marks[STATE_MAPPING[k][1]]) :
                        r.marks[STATE_MAPPING[k][1]][j] \in {Tick, "vv"})

AffectedStates(r) == AffectedFrom(r, 1)

HolidayType(affected_states) ==
    IF Len(affected_states) = Len(STATE_MAPPING) THEN "national" ELSE "state"

BaseHoliday(h_id, h_name_clean, h_name_en, h_date, h_type) ==
    [id |-> h_id, name |-> h_name_clean, name_en |-> h_name_en, date |-> h_date,
     day_of_week |-> DayName(h_date), type |-> h_type,
     is_replacement_holiday |-> FALSE, original_date |-> NoDate,
     original_holiday_id |-> None, replaced_by |-> None,
     replacement_reason |-> None]

\* a replacement record that takes its own date for the original date
ReplacementHoliday_OwnDate(r_id, h_id, h_name_clean, h_name_en, h_date, r_date) ==
    [id |-> r_id, name |-> h_name_clean \o <<" ", "(Cuti", " ", "Gantian)">>,
     name_en |-> h_name_en \o <<" ", "(Replacement)">>, date |-> r_date,
     day_of_week |-> DayName(r_date), type |-> "replacement",
     is_replacement_holiday |-> TRUE, original_date |-> r_date,
     original_holiday_id |-> h_id, replaced_by |-> None,
     replacement_reason |-> <<"Replacement", " ", "for", " ">> \o h_name_clean]

ReplacementHoliday(r_id, h_id, h_name_clean, h_name_en, h_date, r_date) ==
    [id |-> r_id, name |-> h_name_clean \o <<" ", "(Cuti", " ", "Gantian)">>,
     name_en |-> h_name_en \o <<" ", "(Replacement)">>, date |-> r_date,
     day_of_week |-> DayName(r_date), type |-> "replacement",
     is_replacement_holiday |-> TRUE, original_date |-> h_date,
     original_holiday_id |-> h_id, replaced_by |-> None,
     replacement_reason |-> <<"Replacement", " ", "for", " ">> \o h_name_clean]

Links(h_id, state_codes) ==
    [k \in 1..Len(state_codes) |-> [holiday_id |-> h_id, state_code |-> state_codes[k]]]

\* one entry per region, whatever its date
MapAdd_PerRegion(map, r_date, state_code) ==
    Append(map, [date |-> r_date, states |-> <<state_code>>])

\* every region appended to the first entry, whatever its date
MapAdd_FirstEntry(map, r_date, state_code) ==
    IF map # <<>>
    THEN [j \in 1..Len(map) |->
            IF j = 1 THEN [map[j] EXCEPT !.states = Append(@, state_code)] ELSE map[j]]
    ELSE Append(map, [date |-> r_date, states |-> <<state_code>>])

\* replacements_map[r_date].append(state_code), creating the entry when absent;
\* the map is the sequence of its entries in insertion order
MapAdd(map, r_date, state_code) ==
    IF \E j \in 1..Len(map) : map[j].date = r_date
    THEN [j \in 1..Len(map) |->
            IF map[j].date = r_date
            THEN [map[j] EXCEPT !.states = Append(@, state_code)]
            ELSE map[j]]
    ELSE Append(map, [date |-> r_date, states |-> <<state_code>>])

\* the loop that fills replacements_map, from affected state k on
RECURSIVE ReplacementsMap(_, _, _, _, _)
ReplacementsMap(config, affected_states, h_date, k, map) ==
    IF k > Len(affected_states) THEN map
    ELSE LET state_code == affected_states[k]
             c == config[state_code]
             r_date == get_replacement_date(h_date, c.weekend_days,
                                            c.saturday_replacement_rule)
         IN  ReplacementsMap(config, affected_states, h_date, k + 1,
                 IF r_date # NoDate THEN MapAdd(map, r_date, state_code) ELSE map)

\* the loop over replacements_map.items(), from entry k on; acc is the state so far
RECURSIVE EmitReplacements(_, _, _, _, _, _, _)
EmitReplacements(map, k, h_id, h_name_clean, h_name_en, h_date, acc) ==
    IF k > Len(map) THEN acc
    ELSE LET r_id == HolidayId(acc.counter)
         IN  EmitReplacements(map, k + 1, h_id, h_name_clean, h_name_en, h_date,
                 [holidays |-> Append(acc.holidays,
                       ReplacementHoliday(r_id, h_id, h_name_clean, h_name_en,
                                          h_date, map[k].date)),
                  links |-> acc.links \o Links(r_id, map[k].states),
                  counter |-> acc.counter + 1])

RunIdle ==
    /\ states_config = FullRegistry
    /\ holidays_to_insert = <<>>
    /\ holiday_states_to_insert = <<>>
    /\ global_id_counter = 1
    /\ pc = "idle"
    /\ raised = ""
    /\ rowsRead = 0
    /\ row = NoRow
    /\ names = <<>>
    /\ dates = <<>>
    /\ i = 0

\* the state when the loop over the rows is entered
RunInit ==
    /\ states_config \in Registries
    /\ holidays_to_insert = <<>>
    /\ holiday_states_to_insert = <<>>
    /\ global_id_counter = 1
    /\ pc = "read"
    /\ raised = ""
    /\ rowsRead = 0
    /\ row = NoRow
    /\ names = <<>>
    /\ dates = <<>>
    /\ i = 0

\* the next row of the table: its name and date cells are split
ReadRow ==
    /\ pc = "read"
    /\ rowsRead < MaxRows
    /\ \E r \in Rows :
          /\ row' = r
          /\ names' = SplitCell(r.name)
          /\ dates' = SplitCell(r.date)
    /\ i' = 0
    /\ rowsRead' = rowsRead + 1
    /\ pc' = "frag"
    /\ UNCHANGED <<states_config, holidays_to_insert, holiday_states_to_insert,
                   global_id_counter, raised>>

\* a skipped fragment that takes an id all the same
Continue_TakesId ==
    /\ i' = i + 1
    /\ global_id_counter' = global_id_counter + 1
    /\ UNCHANGED <<states_config, holidays_to_insert, holiday_states_to_insert,
                   pc, raised, rowsRead, row, names, dates>>

\* continue: the fragment is skipped
Continue ==
    /\ i' = i + 1
    /\ UNCHANGED <<states_config, holidays_to_insert, holiday_states_to_insert,
                   global_id_counter, pc, raised, rowsRead, row, names, dates>>

Abort(exception) ==
    /\ pc' = "aborted"
    /\ raised' = exception
    /\ UNCHANGED <<states_config, rowsRead, row, names, dates, i>>

FragmentIndex == i + 1

\* one iteration of the loop over the fragments of the row.  The first loop
\* over affected_states links the base holiday to every observing region; its
\* call of get_replacement_date is made for configured regions only and its
\* result is dropped.  The second loop indexes states_config directly.
ProcessFragment ==
    /\ pc = "frag"
    /\ i < Min(Len(names), Len(dates))
    /\ LET h_name == names[FragmentIndex]
           h_date_str == dates[FragmentIndex]
           h_name_clean == Strip(RemoveStars(h_name))
           parsed == parse_date(h_date_str, YEAR)
           h_date == parsed.val
           affected_states == AffectedStates(row)
           h_type == HolidayType(affected_states)
           h_name_en == translate_text(h_name_clean)
           h_id == HolidayId(global_id_counter)
           base == [holidays |-> Append(holidays_to_insert,
                        BaseHoliday(h_id, h_name_clean, h_name_en, h_date, h_type)),
                    links |-> holiday_states_to_insert \o Links(h_id, affected_states),
                    counter |-> global_id_counter + 1]
       IN  IF parsed.exc # ""
           THEN /\ Abort(parsed.exc)
                /\ UNCHANGED <<holidays_to_insert, holiday_states_to_insert,
                               global_id_counter>>
           ELSE IF h_date = NoDate THEN Continue
           ELSE IF affected_states = <<>> THEN Continue
           ELSE IF \E k \in 1..Len(affected_states) :
                       affected_states[k] \notin DOMAIN states_config
           THEN \* states_config[state_code] raises in the grouping loop
                /\ Abort("KeyError")
                /\ holidays_to_insert' = base.holidays
                /\ holiday_states_to_insert' = base.links
                /\ global_id_counter' = base.counter
           ELSE LET replacements_map ==
                        ReplacementsMap(states_config, affected_states, h_date, 1, <<>>)
                    out == EmitReplacements(replacements_map, 1, h_id, h_name_clean,
                                            h_name_en, h_date, base)
                IN  /\ holidays_to_insert' = out.holidays
                    /\ holiday_states_to_insert' = out.links
                    /\ global_id_counter' = out.counter
                    /\ i' = i + 1
                    /\ UNCHANGED <<states_config, pc, raised, rowsRead, row, names, dates>>

\* the fragments of the row are exhausted
RowDone ==
    /\ pc = "frag"
    /\ i >= Min(Len(names), Len(dates))
    /\ pc' = "read"
    /\ UNCHANGED <<states_config, holidays_to_insert, holiday_states_to_insert,
                   global_id_counter, raised, rowsRead, row, names, dates, i>>

\* the rows are exhausted: the result set is handed to the bulk insert
BulkInsert ==
    /\ pc = "read"
    /\ pc' = "done"
    /\ UNCHANGED <<states_config, holidays_to_insert, holiday_states_to_insert,
                   global_id_counter, raised, rowsRead, row, names, dates, i>>

-----------------------------------------------------------------------------
(* Specifications *)

Init == RunInit /\ ResolverIdle

Next ==
    \/ ReadRow /\ UNCHANGED resolverVars
    \/ ProcessFragment /\ UNCHANGED resolverVars
    \/ RowDone /\ UNCHANGED resolverVars
    \/ BulkInsert /\ UNCHANGED resolverVars

Spec == Init /\ [][Next]_vars

InitResolver == RunIdle /\ ResolverInit

NextResolver ==
    \/ GetReplacementDate /\ UNCHANGED runVars
    \/ NextWorkingDayAdvance /\ UNCHANGED runVars
    \/ NextWorkingDayReturn /\ UNCHANGED runVars

SpecResolver == InitResolver /\ [][NextResolver]_vars

-----------------------------------------------------------------------------
(* Replacement Resolver: properties, checked under SpecResolver *)

Returned == r_pc = "returned"

HolidayDayName == DayName(holiday_date)

\* the case the explicit Sunday rule is about: a Saturday holiday of a region
\* whose weekend holds Saturday, under 'replace_on_sunday'
SundayRuleCase ==
    /\ replacement_rule = "replace_on_sunday"
    /\ HolidayDayName = "Saturday"
    /\ "Saturday" \in weekend_days

\* C3: outside the Sunday-rule case, a call that has returned has returned None
\* exactly when the holiday's weekday is outside the weekend pattern, or inside
\* it with the rule "no replacement"; in every other case it has returned a date.
C3_NoneExactly ==
    (Returned /\ ~SundayRuleCase) =>
        (r_result = NoDate <=>
            \/ HolidayDayName \notin weekend_days
            \/ (HolidayDayName \in weekend_days /\ replacement_rule = "no_replacement"))

C3_Witness ==
    /\ Returned
    /\ HolidayDayName \in weekend_days
    /\ replacement_rule = "next_working_day"
    /\ r_result # NoDate

SundayRuleRegion == weekend_days = FriSat /\ replacement_rule = "replace_on_sunday"

\* C4 as stated: under the explicit Sunday rule of a Friday-Saturday region a
\* Saturday holiday gets None and a Friday holiday gets a replacement date.
C4_SaturdayExempt ==
    (Returned /\ SundayRuleRegion) =>
        /\ HolidayDayName = "Saturday" => r_result = NoDate
        /\ HolidayDayName = "Friday" => r_result # NoDate

\* C4 as amended: under 'replace_on_sunday' a Friday-Saturday region gets a
\* replacement date for a Friday holiday and for a Saturday holiday alike, the
\* following Sunday, found by the generic next-working-day search; the rule
\* exempts nothing.
C4_BothReplacedOnSunday ==
    (Returned /\ SundayRuleRegion /\ HolidayDayName \in FriSat) =>
        /\ r_result # NoDate
        /\ DayName(r_result) = "Sunday"
        /\ r_result = holiday_date + (IF HolidayDayName = "Friday" THEN 2 ELSE 1)
        /\ advances >= 1

C4_Witness ==
    /\ Returned
    /\ SundayRuleRegion
    /\ HolidayDayName = "Saturday"
    /\ r_result = holiday_date + 1

\* C9: a returned replacement date is strictly after the holiday date, its
\* weekday is outside the weekend pattern, and every date strictly between the
\* two has a weekday inside the pattern.
C9_NextWorkingDay ==
    (Returned /\ r_result # NoDate) =>
        /\ r_result > holiday_date
        /\ DayName(r_result) \notin weekend_days
        /\ \A d \in (holiday_date + 1)..(r_result - 1) : DayName(d) \in weekend_days

C9_Witness ==
    /\ Returned
    /\ r_result > holiday_date + 2
    /\ Cardinality(weekend_days) >= 3

\* C10: the next-working-day search makes at most seven one-day advances, for
\* every weekend pattern that is a subset of the seven weekday names.
C10_AtMostSevenAdvances == advances <= 7

-----------------------------------------------------------------------------
(* The result set: what the properties of the run read from it *)

\* the regions linked to the holiday `id` by the association records `links`
RegionsIn(links, id) ==
    {links[k].state_code : k \in {j \in 1..Len(links) : links[j].holiday_id = id}}

LinkCountIn(links, id) ==
    Cardinality({j \in 1..Len(links) : links[j].holiday_id = id})

RegionsOf(id) == RegionsIn(holiday_states_to_insert, id)

\* positions of the base records, and of the replacement records of a base record
BaseHolidays ==
    {k \in 1..Len(holidays_to_insert) : ~holidays_to_insert[k].is_replacement_holiday}

ReplacementsOf(id) ==
    {k \in 1..Len(holidays_to_insert) :
        /\ holidays_to_insert[k].is_replacement_holiday
        /\ holidays_to_insert[k].original_holiday_id = id}

\* every observing region of the holiday has an entry in the registry
Configured(id) == RegionsOf(id) \subseteq DOMAIN states_config

\* what get_replacement_date returns for holiday h and region c
Resolved(h, c) ==
    get_replacement_date(h.date, states_config[c].weekend_days,
                         states_config[c].saturday_replacement_rule)

ReplacedRegions(h) == {c \in RegionsOf(h.id) : Resolved(h, c) # NoDate}

\* C1: for every base holiday whose observing regions are all configured, the
\* number of replacement records that point back to it equals the number of
\* distinct dates get_replacement_date returns over its observing regions.
C1_ReplacementDedup ==
    \A b \in BaseHolidays :
        LET h == holidays_to_insert[b]
        IN  Configured(h.id) =>
                Cardinality(ReplacementsOf(h.id)) =
                    Cardinality({Resolved(h, c) : c \in ReplacedRegions(h)})

\* a Saturday holiday with two replacement records for three or more replaced
\* regions, and a region that gets no replacement
C1_Witness ==
    \E b \in BaseHolidays :
        LET h == holidays_to_insert[b]
        IN  /\ Configured(h.id)
            /\ h.day_of_week = "Saturday"
            /\ Cardinality(ReplacementsOf(h.id)) = 2
            /\ Cardinality(ReplacedRegions(h)) >= 3
            /\ ReplacedRegions(h) # RegionsOf(h.id)

\* C2: for every base holiday whose observing regions are all configured, the
\* region sets of its replacement records are pairwise disjoint, their union is
\* the set of observing regions that get a replacement date, each region is
\* linked once, and to the record dated with the date resolved for that region.
C2_RegionGrouping ==
    \A b \in BaseHolidays :
        LET h == holidays_to_insert[b]
            reps == ReplacementsOf(h.id)
            rid(k) == holidays_to_insert[k].id
        IN  Configured(h.id) =>
                /\ \A r1 \in reps : \A r2 \in reps :
                      r1 # r2 => RegionsOf(rid(r1)) \cap RegionsOf(rid(r2)) = {}
                /\ UNION {RegionsOf(rid(r)) : r \in reps} = ReplacedRegions(h)
                /\ \A r \in reps :
                      /\ \A c \in RegionsOf(rid(r)) :
                            holidays_to_insert[r].date = Resolved(h, c)
                      /\ LinkCountIn(holiday_states_to_insert, rid(r)) =
                            Cardinality(RegionsOf(rid(r)))

\* a base holiday with two replacement records on different dates, one of
\* them shared by several regions, and a region linked to neither
C2_Witness ==
    \E b \in BaseHolidays :
        LET h == holidays_to_insert[b]
            rid(k) == holidays_to_insert[k].id
        IN  /\ Configured(h.id)
            /\ ReplacedRegions(h) # RegionsOf(h.id)
            /\ \E r1 \in ReplacementsOf(h.id) : \E r2 \in ReplacementsOf(h.id) :
                  /\ holidays_to_insert[r1].date # holidays_to_insert[r2].date
                  /\ Cardinality(RegionsOf(rid(r1))) >= 2

-----------------------------------------------------------------------------
(* The run: properties of one fragment step, checked under Spec *)

\* the fragment loop is about to process fragment i + 1 of the row
FragmentReady == pc = "frag" /\ i < Min(Len(names), Len(dates))

\* the regions whose marker cell, trimmed, is the affirmative glyph
Observing(r) ==
    {STATE_MAPPING[k][2] :
        k \in {j \in 1..Len(STATE_MAPPING) : Strip(r.marks[STATE_MAPPING[j][1]]) = <<Tick>>}}

\* "<day> <month-name>" naming a calendar date of the year
IsValidDayMonth(s, year) ==
    LET t == Split(Strip(s), " ")
    IN  /\ Len(t) >= 2
        /\ IsIntLiteral(t[1])
        /\ Len(t[2]) = 1
        /\ t[2][1] \in DOMAIN MONTH_MAPPING
        /\ IntLiterals[t[1][1]] \in 1..DaysIn(year, MONTH_MAPPING[t[2][1]])

DateResolved == FragmentReady /\ IsValidDayMonth(dates[i + 1], YEAR)

\* the first record the step adds to the result set
FirstNew == holidays_to_insert'[Len(holidays_to_insert) + 1]

NewReplacementDates ==
    {holidays_to_insert'[k].date :
        k \in (Len(holidays_to_insert) + 2)..Len(holidays_to_insert')}

\* C5: a fragment with an observing region that has no registry entry does not
\* abort the run: the base record and its link to every observing region are
\* emitted, the replacements of the configured regions are emitted, and the
\* loop goes on to the next fragment.
C5_MissingConfigStep ==
    (DateResolved /\ ~(Observing(row) \subseteq DOMAIN states_config)) =>
        /\ pc' = "frag"
        /\ i' = i + 1
        /\ Len(holidays_to_insert') > Len(holidays_to_insert)
        /\ ~FirstNew.is_replacement_holiday
        /\ RegionsIn(holiday_states_to_insert', FirstNew.id) = Observing(row)
        /\ NewReplacementDates =
              {Resolved(FirstNew, c) : c \in Observing(row) \cap DOMAIN states_config}
                  \ {NoDate}

\* C5: every step of the run recovers a missing region configuration as C5_MissingConfigStep says.
C5_MissingConfigRecovered == [][C5_MissingConfigStep]_vars

\* C6: a fragment whose date string is not a valid "<day> <month-name>" date
\* adds no Holiday record, no association record and no id, and the loop goes
\* on to the next fragment.
C6_UnparseableStep ==
    (FragmentReady /\ ~IsValidDayMonth(dates[i + 1], YEAR)) =>
        /\ pc' = "frag"
        /\ i' = i + 1
        /\ UNCHANGED <<holidays_to_insert, holiday_states_to_insert, global_id_counter>>

\* C6: every step of the run skips an unparseable date as C6_UnparseableStep says.
C6_UnparseableNeverAborts == [][C6_UnparseableStep]_vars

\* C7: a fragment with a resolved date and no observing region adds nothing;
\* otherwise its base record is linked to exactly the regions whose marker is
\* the affirmative glyph, is 'national' iff every mapped region observes it
\* and 'state' iff some but not all do; and every record of the result set has
\* at least one association record.
C7_ApplicabilityStep ==
    /\ DateResolved =>
          IF Observing(row) = {}
          THEN UNCHANGED <<holidays_to_insert, holiday_states_to_insert>>
          ELSE /\ Len(holidays_to_insert') > Len(holidays_to_insert)
               /\ ~FirstNew.is_replacement_holiday
               /\ RegionsIn(holiday_states_to_insert', FirstNew.id) = Observing(row)
               /\ FirstNew.type = "national" <=> Observing(row) = Codes
               /\ FirstNew.type = "state" <=> Observing(row) # Codes
    /\ \A k \in 1..Len(holidays_to_insert') :
          RegionsIn(holiday_states_to_insert', holidays_to_insert'[k].id) # {}

\* C7: every step of the run resolves applicability as C7_ApplicabilityStep says.
C7_Applicability == [][C7_ApplicabilityStep]_vars

\* a nationwide and a region-specific base record, after a row nobody observes
C7_Witness ==
    /\ \E k \in BaseHolidays : holidays_to_insert[k].type = "national"
    /\ \E k \in BaseHolidays :
          /\ holidays_to_insert[k].type = "state"
          /\ Cardinality(RegionsOf(holidays_to_insert[k].id)) = 4
    /\ \A k \in 1..Len(holidays_to_insert) : RegionsOf(holidays_to_insert[k].id) # {}

\* the line a position of a cell lies on, counted from 0
LineOf(cell, p) == Cardinality({q \in 1..(p - 1) : cell[q] = "\n"})

\* the positions of the cell that hold something other than whitespace
Inked(cell) == {p \in 1..Len(cell) : ~IsSpace(cell[p])}

NonBlankLines(cell) == {LineOf(cell, p) : p \in Inked(cell)}

\* line l of the cell, from its first to its last non-whitespace atom
LineText(cell, l) ==
    LET P == {p \in Inked(cell) : LineOf(cell, p) = l}
        lo == CHOOSE p \in P : \A q \in P : p <= q
        hi == CHOOSE p \in P : \A q \in P : p >= q
    IN  SubSeq(cell, lo, hi)

\* the non-blank lines of the cell, trimmed, in order
Entries(cell) ==
    LET S == NonBlankLines(cell)
    IN  [k \in 1..Cardinality(S) |->
            LineText(cell, CHOOSE l \in S : Cardinality({m \in S : m < l}) = k - 1)]

FragmentCount(r) == Min(Len(Entries(r.name)), Len(Entries(r.date)))

\* C8: the name cell and the date cell of a row are split into their non-blank
\* lines, trimmed; the row's fragment loop ends after exactly
\* min(len(names), len(dates)) fragments, taken one by one in order, and the
\* base record of fragment k carries the k-th name and the k-th date.
C8_CellSplittingStep ==
    /\ rowsRead' > 0 => /\ names' = Entries(row'.name)
                        /\ dates' = Entries(row'.date)
    /\ (pc = "frag" /\ pc' = "read") => i = FragmentCount(row)
    /\ (pc = "frag" /\ pc' = "frag") => /\ i < FragmentCount(row)
                                        /\ i' = i + 1
                                        /\ row' = row
    /\ (pc = "frag" /\ Len(holidays_to_insert') > Len(holidays_to_insert)) =>
          /\ FirstNew.name = Strip(RemoveStars(Entries(row.name)[i + 1]))
          /\ IsValidDayMonth(Entries(row.date)[i + 1], YEAR)
          /\ FirstNew.date = parse_date(Entries(row.date)[i + 1], YEAR).val

\* C8: every step of the run splits and pairs the cells as C8_CellSplittingStep says.
C8_CellSplitting == [][C8_CellSplittingStep]_vars

\* the row whose cells each hold two entries separated by a blank line has
\* yielded two base records dated 17 and 18 February 2026
C8_Witness ==
    /\ pc = "read"
    /\ Len(Split(row.name, "\n")) = 3
    /\ Len(Split(row.date, "\n")) = 3
    /\ i = 2
    /\ \E k \in BaseHolidays :
          /\ holidays_to_insert[k].name = HariRayaPuasa
          /\ holidays_to_insert[k].date = 31 + 17
          /\ holidays_to_insert[k].day_of_week = "Tuesday"
    /\ \E k \in BaseHolidays :
          /\ holidays_to_insert[k].name = HariKedua
          /\ holidays_to_insert[k].date = 31 + 18

-----------------------------------------------------------------------------
(* The result set: ids *)

\* the number an id's digit field denotes
RECURSIVE DigitsValue(_)
DigitsValue(ds) ==
    IF ds = <<>> THEN 0 ELSE 10 * DigitsValue(SubSeq(ds, 1, Len(ds) - 1)) + ds[Len(ds)]

CounterOf(id) == DigitsValue(id[3])

\* C11: the ids of the records of the result set are pairwise distinct, the
\* counter value of the k-th record is k (strictly increasing from 1 without a
\* gap), and the counter is 1 plus the number of records emitted so far, so no
\* skipped fragment has taken an id.
C11_IdAssignment ==
    /\ \A k \in 1..Len(holidays_to_insert) :
          /\ CounterOf(holidays_to_insert[k].id) = k
          /\ Len(holidays_to_insert[k].id[3]) >= 3
    /\ \A j \in 1..Len(holidays_to_insert) : \A k \in 1..Len(holidays_to_insert) :
          j # k => holidays_to_insert[j].id # holidays_to_insert[k].id
    /\ global_id_counter = Len(holidays_to_insert) + 1

\* the second row has skipped four of its five fragments, after a first row
\* that gave a base record and its replacement records
C11_Witness ==
    /\ pc = "read"
    /\ rowsRead = 2
    /\ i = 5
    /\ Len(holidays_to_insert) >= 4
    /\ \E k \in 1..Len(holidays_to_insert) : holidays_to_insert[k].is_replacement_holiday
    /\ ~holidays_to_insert[Len(holidays_to_insert)].is_replacement_holiday

-----------------------------------------------------------------------------
(* The result set: back-references *)

\* the position of the last base record before position k, 0 when there is none
LastBaseBefore(k) ==
    IF \E b \in BaseHolidays : b < k
    THEN CHOOSE b \in BaseHolidays : b < k /\ \A c \in BaseHolidays : c < k => c <= b
    ELSE 0

\* C12: every record flagged as a replacement is of type 'replacement', points
\* back to the base record that precedes it with no other base record between
\* them, carries that record's date as its original date, is dated strictly
\* later, and is linked to a subset of that record's regions; a base record is
\* not of type 'replacement', has no back-reference and no original date; and
\* replaced_by is set on no record.
C12_BackReference ==
    \A k \in 1..Len(holidays_to_insert) :
        LET h == holidays_to_insert[k]
            b == LastBaseBefore(k)
        IN  /\ h.replaced_by = None
            /\ IF h.is_replacement_holiday
               THEN /\ h.type = "replacement"
                    /\ b # 0
                    /\ h.original_holiday_id = holidays_to_insert[b].id
                    /\ h.original_date = holidays_to_insert[b].date
                    /\ h.original_date # NoDate
                    /\ h.date > h.original_date
                    /\ RegionsOf(h.id) # {}
                    /\ RegionsOf(h.id) \subseteq RegionsOf(holidays_to_insert[b].id)
               ELSE /\ h.type \in {"national", "state"}
                    /\ h.original_holiday_id = None
                    /\ h.original_date = NoDate
                    /\ h.replacement_reason = None

\* a base record followed by two replacement records of its own, the second
\* of them linked to fewer regions than the base record, then another base record
C12_Witness ==
    \E k \in 1..Len(holidays_to_insert) :
        /\ k + 3 <= Len(holidays_to_insert)
        /\ ~holidays_to_insert[k].is_replacement_holiday
        /\ holidays_to_insert[k + 1].is_replacement_holiday
        /\ holidays_to_insert[k + 2].is_replacement_holiday
        /\ holidays_to_insert[k + 2].original_holiday_id = holidays_to_insert[k].id
        /\ RegionsOf(holidays_to_insert[k + 2].id) # RegionsOf(holidays_to_insert[k].id)
        /\ ~holidays_to_insert[k + 3].is_replacement_holiday

=============================================================================
